---- MODULE Spec2Model ----
(***************************************************************************)
(* Model of the report-fetching and auto-refresh controller of the         *)
(* Vicidial analytics dashboard (frontend/src/pages/Dashboard.tsx) and of  *)
(* the axios client it calls (api/axiosConfig).                            *)
(*                                                                         *)
(* Calendar dates are the strings "YYYY-MM-DD" of the source, encoded as   *)
(* the integer YYYYMMDD (string order = integer order); "" is NoDate.       *)
(* A JavaScript Date is its time value, here in whole hours since the      *)
(* epoch 1970-01-01T00:00Z (all zones modelled have whole-hour offsets).   *)
(***************************************************************************)
EXTENDS Integers, Naturals, Sequences, FiniteSets, Bags, TLC

\* ------------------------------------------------------------------------
\* Bounds of the model
\* ------------------------------------------------------------------------
\* number of consecutive server dates explored, starting at 2024-01-01
DateSpan == 400
\* number of user actions and interval ticks explored after the page has loaded
MaxEvents == 2
\* number of them explored while the requests of the mount are still in flight
MountEvents == 0
\* number of clock steps that make up the 60 s period of the interval
PeriodSteps == 2

\* null (of the error string), undefined (of a string), "" (of a date string),
\* undefined (of a number) and null (of the snapshot)
Null == "null"
Undef == "undefined"
NoDate == 0
NoNumber == 0 - 1
NoData == [total_calls |-> NoNumber, balance |-> NoNumber]

\* ------------------------------------------------------------------------
\* ECMAScript Date arithmetic (what new Date(s), getDate, setDate and
\* toISOString compute)
\* ------------------------------------------------------------------------
Years == 2023..2025

EncodeDate(y, m, d) == y * 10000 + m * 100 + d
YearOf(s) == s \div 10000
MonthOf(s) == (s \div 100) % 100
DayOf(s) == s % 100

\* ECMAScript DayFromYear(y): day number of January 1st of year y
DayFromYear(y) ==
    365 * (y - 1970) + ((y - 1969) \div 4) - ((y - 1901) \div 100)
        + ((y - 1601) \div 400)

IsLeap(y) == (y % 4 = 0 /\ y % 100 # 0) \/ y % 400 = 0

\* days before the first of month m (0 = January), as in MonthFromTime's table
DaysBeforeMonth(y, m) ==
    LET leap == IF IsLeap(y) THEN 1 ELSE 0
    IN  CASE m = 0 -> 0
          [] m = 1 -> 31
          [] m = 2 -> 59 + leap
          [] m = 3 -> 90 + leap
          [] m = 4 -> 120 + leap
          [] m = 5 -> 151 + leap
          [] m = 6 -> 181 + leap
          [] m = 7 -> 212 + leap
          [] m = 8 -> 243 + leap
          [] m = 9 -> 273 + leap
          [] m = 10 -> 304 + leap
          [] m = 11 -> 334 + leap
          [] m = 12 -> 365 + leap

Day(t) == t \div 24
TimeWithinDay(t) == t % 24

YearFromTime(t) ==
    CHOOSE y \in Years : DayFromYear(y) <= Day(t) /\ Day(t) < DayFromYear(y + 1)

DayWithinYear(t) == Day(t) - DayFromYear(YearFromTime(t))

MonthFromTime(t) ==
    LET y == YearFromTime(t)
        d == Day(t) - DayFromYear(y)
    IN  CHOOSE m \in 0..11 :
            DaysBeforeMonth(y, m) <= d /\ d < DaysBeforeMonth(y, m + 1)

DateFromTime(t) ==
    LET y == YearFromTime(t)
    IN  Day(t) - DayFromYear(y) - DaysBeforeMonth(y, MonthFromTime(t)) + 1

\* ECMAScript MakeDay(year, month, date): date may be <= 0 or past the month end
MakeDay(year, month, date) ==
    DayFromYear(year) + DaysBeforeMonth(year, month) + date - 1

MakeDate(day, time) == day * 24 + time

\* new Date("YYYY-MM-DD"): a date-only ISO string is parsed as UTC midnight
NewDate(s) == MakeDate(MakeDay(YearOf(s), MonthOf(s) - 1, DayOf(s)), 0)

\* formatDate(date) = date.toISOString().split("T")[0]: the UTC calendar date
formatDate(t) ==
    LET y == YearFromTime(t)
        m == MonthFromTime(t)
    IN  EncodeDate(y, m + 1, Day(t) - DayFromYear(y) - DaysBeforeMonth(y, m) + 1)

\* ------------------------------------------------------------------------
\* The browser's time zone (an input of every local-time Date method)
\* ------------------------------------------------------------------------
Zones == {"UTC", "Asia/Tokyo", "America/New_York", "Europe/Berlin"}

StdOffset(z) ==
    CASE z = "UTC" -> 0
      [] z = "Asia/Tokyo" -> 9
      [] z = "America/New_York" -> 0 - 5
      [] z = "Europe/Berlin" -> 1

\* daylight saving time of 2024, as UTC instants [start, end)
DstStart(z) ==
    IF z = "America/New_York" THEN NewDate(20240310) + 7 ELSE NewDate(20240331) + 1
DstEnd(z) ==
    IF z = "America/New_York" THEN NewDate(20241103) + 6 ELSE NewDate(20241027) + 1

HasDst(z) == z \in {"America/New_York", "Europe/Berlin"}

\* offset in effect at the UTC instant t
OffsetAt(t, z) ==
    IF HasDst(z) /\ DstStart(z) <= t /\ t < DstEnd(z)
    THEN StdOffset(z) + 1 ELSE StdOffset(z)

LocalTime(t, z) == t + OffsetAt(t, z)

\* ECMAScript UTC(tlocal): a repeated local time is the earlier instant, a
\* skipped one is read with the offset before the transition
UTC(tl, z) ==
    LET asDst == tl - (StdOffset(z) + 1)
        asStd == tl - StdOffset(z)
    IN  IF HasDst(z) /\ OffsetAt(asDst, z) = StdOffset(z) + 1 THEN asDst ELSE asStd

\* Date.prototype.getDate / setDate work on the local calendar date
getDate(t, z) == DateFromTime(LocalTime(t, z))

setDate(t, dt, z) ==
    LET lt == LocalTime(t, z)
    IN  UTC(MakeDate(MakeDay(YearFromTime(lt), MonthFromTime(lt), dt),
                     TimeWithinDay(lt)), z)


\* ------------------------------------------------------------------------
\* Input domains
\* ------------------------------------------------------------------------
MainTimeframe == {"live", "yesterday", "weekly", "monthly", "custom"}
AsrChoices == {"day", "hour"}
ConnectedCallsChoices == {"30min", "15min"}

\* values typed into the two <input type="date"> fields ("" = NoDate)
CustomDates == {NoDate, 20240301, 20240305}

\* server_date values of /server-date, and the browser clock's UTC date
ServerDates == {20240310}
ClockDate == EncodeDate(2024, 3, 11)

FirstDate == NewDate(20240101)
DateWindow == {formatDate(FirstDate + 24 * i) : i \in 0..(DateSpan - 1)}

\* current_balance of a successful /balance response
BalanceValues == {50}

\* bodies of a successful /report response (res.data)
ReportBodies ==
    {[total_calls |-> 10, balance |-> NoNumber], [total_calls |-> 20, balance |-> 50]}

\* rejected requests: the HTTP status (0 = no response) and response.data.error
ReportFailures ==
    { [status |-> 0, error |-> Undef],
      [status |-> 500, error |-> ""],
      [status |-> 500, error |-> "Database error"],
      [status |-> 401, error |-> Undef] }
OtherFailures == { [status |-> 0, error |-> Undef], [status |-> 401, error |-> Undef] }

VARIABLES
    data, loading, error, serverDate, balance,
    timeframe, customStart, customEnd,
    refreshKey, asrTimeframe, connectedCallsTimeframe,
    timers,      \* bag of the closures of the scheduled setInterval callbacks
    calls,       \* bag of the asynchronous calls awaiting a response
    token, user, location,   \* localStorage entries and window.location
    tz,          \* the browser's time zone
    budget,      \* user actions and ticks still to be explored
    lastReport,  \* how the last answered /report went: none, ok, recovered, fail
    derived,     \* result of the last stand-alone getDateRange evaluation
    shownFor,    \* the timeframe whose date range the snapshot was fetched for
    intervals,   \* number of setInterval calls so far (the id of the latest)
    elapsed,     \* time since the scheduled interval was created or last fired
    sinceFetch,  \* time since live was entered or the interval last fired
    rejected,    \* a promise of the component was rejected with no handler
    shown,       \* the page the router has rendered
    payments, page, type, startDate, endDate,   \* state of PaymentHistory
    applied,     \* Apply Filters was the last click on the payments page
    refreshTrigger   \* state of the legacy dashboard

vars == << data, loading, error, serverDate, balance, timeframe, customStart,
           customEnd, refreshKey, asrTimeframe, connectedCallsTimeframe,
           timers, calls, token, user, location, tz, budget, lastReport, derived,
           rejected, shownFor, intervals, elapsed, sinceFetch, shown,
           payments, page, type, startDate, endDate, applied, refreshTrigger >>

\* the variables of the router, of PaymentHistory and of the legacy dashboard
pageVars == << shown, payments, page, type, startDate, endDate, applied,
               refreshTrigger >>

\* the list of payments before the first response: useState([])
NoPayments == [offset |-> 0 - 1, type |-> "none", startDate |-> NoDate,
               endDate |-> NoDate, full |-> FALSE]

\* the dashboard on its own: no router, no PaymentHistory
DashboardOnly ==
    /\ shown = "dashboard"
    /\ applied = FALSE
    /\ payments = NoPayments
    /\ page = 1
    /\ type = "all"
    /\ startDate = NoDate
    /\ endDate = NoDate
    /\ refreshTrigger = 0

NoRange == [startDate |-> NoDate, endDate |-> NoDate]

\* ------------------------------------------------------------------------
\* getDateRange
\* ------------------------------------------------------------------------
\* const y = new Date(today); y.setDate(y.getDate() - n); formatDate(y)
DaysBefore(today, n, z) ==
    formatDate(setDate(NewDate(today), getDate(NewDate(today), z) - n, z))

\* timeframe === "yesterday": startDate = endDate = formatDate(y)
YesterdayRange(today, z) ==
    [startDate |-> DaysBefore(today, 1, z), endDate |-> DaysBefore(today, 1, z)]

\* a copy of the yesterday branch: the week's endDate is moved as well
WeeklyRangeBothMoved(today, z) ==
    [startDate |-> DaysBefore(today, 7, z), endDate |-> DaysBefore(today, 7, z)]

\* the weekly branch with the moved date assigned to endDate
WeeklyRangeSwapped(today, z) ==
    [startDate |-> today, endDate |-> DaysBefore(today, 7, z)]

\* timeframe === "weekly": startDate = formatDate(w), endDate stays today
WeeklyRange(today, z) ==
    [startDate |-> DaysBefore(today, 7, z), endDate |-> today]

\* timeframe === "monthly": startDate = formatDate(m), endDate stays today
MonthlyRange(today, z) ==
    [startDate |-> DaysBefore(today, 30, z), endDate |-> today]

\* the custom branch without its fallback: the inputs are used as they are
CustomRangeNoFallback(today, cs, ce) == [startDate |-> cs, endDate |-> ce]

\* timeframe === "custom": customStart || today, customEnd || today
CustomRange(today, cs, ce) ==
    [startDate |-> IF cs # NoDate THEN cs ELSE today,
     endDate |-> IF ce # NoDate THEN ce ELSE today]

getDateRange(today, tf, cs, ce, z) ==
    CASE tf = "yesterday" -> YesterdayRange(today, z)
      [] tf = "weekly" -> WeeklyRange(today, z)
      [] tf = "monthly" -> MonthlyRange(today, z)
      [] tf = "custom" -> CustomRange(today, cs, ce)
      [] OTHER -> [startDate |-> today, endDate |-> today]

\* ------------------------------------------------------------------------
\* Asynchronous calls
\* ------------------------------------------------------------------------
\* the state a render's functions close over, as far as getDateRange reads it
\* (customStart and customEnd are read only when timeframe is custom)
ClosureOf(sd, tf, cs, ce) ==
    [sd |-> sd, tf |-> tf,
     cs |-> IF tf = "custom" THEN cs ELSE NoDate,
     ce |-> IF tf = "custom" THEN ce ELSE NoDate]
Closure == ClosureOf(serverDate, timeframe, customStart, customEnd)
\* the first render: init() and the first interval close over it
NoClosure == ClosureOf(NoDate, "live", NoDate, NoDate)

One(x) == SetToBag({x})
Rest(c) == calls (-) One(c)
Mounted == location = "/"

\* a getDateRange that reads the closed-over serverDate without asking
\* /server-date when it is ""
ReportCallNoWait(silent, origin, mr, clo) ==
    [kind |-> "report", stage |-> "report",
     silent |-> silent, origin |-> origin, mr |-> mr, clo |-> clo,
     range |-> IF clo.sd = NoDate THEN NoRange
               ELSE getDateRange(clo.sd, clo.tf, clo.cs, clo.ce, tz)]

\* fetchReport(silent) up to its first request: getDateRange asks /server-date
\* when the closed-over serverDate is "", otherwise /report goes out at once
ReportCall(silent, origin, mr, clo) ==
    [kind |-> "report",
     stage |-> IF clo.sd = NoDate THEN "server-date" ELSE "report",
     silent |-> silent, origin |-> origin, mr |-> mr, clo |-> clo,
     range |-> IF clo.sd = NoDate THEN NoRange
               ELSE getDateRange(clo.sd, clo.tf, clo.cs, clo.ce, tz)]

\* fetchServerDate (kind "server-date"), fetchBalance ("balance"),
\* fetchASRChart ("asr"), fetchConnectedCallsChart ("cc") awaiting their response
SimpleCall(kind, origin, mr) ==
    [kind |-> kind, stage |-> kind, silent |-> TRUE, origin |-> origin,
     mr |-> mr, clo |-> NoClosure, range |-> NoRange]

\* ------------------------------------------------------------------------
\* Effects
\* ------------------------------------------------------------------------
\* the effect without its cleanup: the previous interval is never cleared
LiveTimerEffectNoCleanup(old, tf, clo) ==
    IF tf # "live" THEN old ELSE old (+) One(clo)

\* the effect without its guard: an interval is scheduled for any timeframe
LiveTimerEffectAlways(old, tf, clo) == One(clo)

\* useEffect(..., [timeframe, connectedCallsTimeframe]): the cleanup of the
\* previous run clears its interval, then the body schedules one when live
LiveTimerEffect(old, tf, clo) ==
    IF tf # "live" THEN EmptyBag ELSE One(clo)

\* the interval effect's setInterval call: a run of the effect while live
\* creates a new interval
IntervalsAfter(n, tf) == IF tf = "live" THEN n + 1 ELSE n

\* the effect with customStart and customEnd among its dependencies
ReportEffectFiresOnCustom(tfChanged, keyChanged, customChanged) ==
    tfChanged \/ keyChanged \/ customChanged

\* useEffect(() => fetchReport(true), [timeframe, refreshKey])
ReportEffectFires(tfChanged, keyChanged, customChanged) ==
    tfChanged \/ keyChanged

ReportEffect(tfChanged, keyChanged, customChanged, clo) ==
    IF ReportEffectFires(tfChanged, keyChanged, customChanged)
    THEN One(ReportCall(TRUE, "effect", 0, clo))
    ELSE EmptyBag

\* ------------------------------------------------------------------------
\* Continuations of a settled call
\* ------------------------------------------------------------------------
\* init(): await fetchServerDate(); fetchBalance(); fetchReport(true);
\*         fetchASRChart(); fetchConnectedCallsChart()
InitNext(c) ==
    CASE c.kind = "server-date" -> One(SimpleCall("balance", "init", 0))
      [] c.kind = "balance" -> One(ReportCall(TRUE, "init", 0, NoClosure))
      [] c.kind = "report" -> One(SimpleCall("asr", "init", 0))
      [] c.kind = "asr" -> One(SimpleCall("cc", "init", 0))
      [] OTHER -> EmptyBag

\* manualRefresh: Promise.all has settled when the last of its four calls has
GroupDone(c) ==
    c.mr # 0 /\ \A d \in BagToSet(Rest(c)) : d.mr # c.mr

\* an increment after each of the four requests instead of after Promise.all
KeyAfterEach(c) == IF c.mr # 0 THEN refreshKey + 1 ELSE refreshKey

\* setRefreshKey((k) => k + 1) after the Promise.all
KeyAfter(c) == IF GroupDone(c) THEN refreshKey + 1 ELSE refreshKey

\* what runs once call c has settled, with clo the state after its updates
Continue(c, clo) ==
    IF c.origin = "init" THEN InitNext(c)
    ELSE ReportEffect(FALSE, GroupDone(c), FALSE, clo)


\* the request functions without their try/catch: the failure of the request
\* rejects the promise of the function awaiting it
EscapesUncaught(c) == TRUE

\* whether the failure of the request call c awaits leaves the function that
\* awaits it: fetchServerDate, fetchBalance, fetchASRChart,
\* fetchConnectedCallsChart and fetchReport each await inside try and have a
\* catch that does not throw
Escapes(c) == FALSE

\* an interceptor that redirects on a 401 and leaves the storage alone
InterceptRedirectOnly(f) ==
    /\ location' = IF f.status = 401 THEN "/login" ELSE location
    /\ UNCHANGED << token, user >>

\* response interceptor: a 401 clears the session and redirects
Intercept(f) ==
    /\ token' = IF f.status = 401 THEN FALSE ELSE token
    /\ user' = IF f.status = 401 THEN FALSE ELSE user
    /\ location' = IF f.status = 401 THEN "/login" ELSE location


\* ------------------------------------------------------------------------
\* State updates of fetchReport
\* ------------------------------------------------------------------------
\* setError without the fallback text
ErrorTextNoFallback(f) == f.error

\* a catch branch that clears the error instead of setting it
ErrorTextCleared(f) == Null

\* setError(e?.response?.data?.error || "Failed to fetch report")
ErrorText(f) ==
    IF f.error \in {Undef, ""} THEN "Failed to fetch report" ELSE f.error

\* a merge into the previous snapshot: a field the response lacks is kept
SnapshotMerged(old, body) ==
    [body EXCEPT !.balance = IF body.balance = NoNumber THEN old.balance
                             ELSE body.balance]

\* a snapshot once set is kept: the first response wins
SnapshotKept(old, body) == IF old = NoData THEN body ELSE old

\* setData(res.data)
SnapshotAfter(old, body) == body

\* if (res.data && res.data.balance !== undefined) setBalance(Number(...))
BalanceAfterReport(cur, body) ==
    IF body.balance # NoNumber THEN body.balance ELSE cur

\* the finally block without its guard: any fetch clears the flag
LoadingAfterUnguarded(c, cur) == FALSE

\* finally { if (!silent) setLoading(false) }
LoadingAfter(c, cur) == IF c.silent THEN cur ELSE FALSE

\* ------------------------------------------------------------------------
\* Initial state: the first render and its mount effects
\* ------------------------------------------------------------------------
Mount ==
    /\ DashboardOnly
    /\ budget = MountEvents
    /\ lastReport = "none"
    /\ data = NoData
    /\ loading = FALSE
    /\ error = Null
    /\ serverDate = NoDate
    /\ balance = 0
    /\ timeframe = "live"
    /\ customStart = NoDate
    /\ customEnd = NoDate
    /\ refreshKey = 0
    /\ asrTimeframe = "day"
    /\ connectedCallsTimeframe = "30min"
    /\ tz = "America/New_York"
    /\ timers = LiveTimerEffect(EmptyBag, "live", NoClosure)
    /\ calls = One(SimpleCall("server-date", "init", 0))
                 (+) ReportEffect(TRUE, TRUE, FALSE, NoClosure)
                 (+) One(SimpleCall("asr", "effect", 0))
                 (+) One(SimpleCall("cc", "effect", 0))
    /\ token = TRUE
    /\ user = TRUE
    /\ location = "/"
    /\ derived = NoRange
    /\ rejected = FALSE
    /\ intervals = 1
    /\ elapsed = 0
    /\ sinceFetch = 0
    /\ shownFor = "none"

\* the page at rest, every request answered: as loaded, or with the custom
\* range selected and its start date entered
Loaded ==
    /\ DashboardOnly
    /\ budget = MaxEvents
    /\ lastReport = "ok"
    /\ data = [total_calls |-> 10, balance |-> NoNumber]
    /\ loading = FALSE
    /\ error = Null
    /\ serverDate \in ServerDates
    /\ balance = 50
    /\ \/ timeframe = "live" /\ customStart = NoDate
       \/ timeframe = "custom" /\ customStart = 20240305
    /\ customEnd = NoDate
    /\ refreshKey = 0
    /\ asrTimeframe = "day"
    /\ connectedCallsTimeframe = "30min"
    /\ tz = "America/New_York"
    /\ timers = LiveTimerEffect(EmptyBag, timeframe, NoClosure)
    /\ calls = EmptyBag
    /\ token = TRUE
    /\ user = TRUE
    /\ location = "/"
    /\ derived = NoRange
    /\ rejected = FALSE
    /\ intervals = 1
    /\ elapsed = 0
    /\ sinceFetch = 0
    /\ shownFor = timeframe

Init == Mount \/ Loaded

\* ------------------------------------------------------------------------
\* User actions
\* ------------------------------------------------------------------------
\* setTimeframe with an abort of the report fetches in flight
SetTimeframeAborting(tf) ==
    /\ Mounted
    /\ budget > 0
    /\ budget' = budget - 1
    /\ tf # timeframe
    /\ timeframe' = tf
    /\ timers' = LiveTimerEffect(timers, tf,
                     ClosureOf(serverDate, tf, customStart, customEnd))
    /\ calls' = [c \in {d \in BagToSet(calls) : d.kind # "report"} |-> calls[c]]
                     (+) ReportEffect(TRUE, FALSE, FALSE,
                             ClosureOf(serverDate, tf, customStart, customEnd))
    /\ intervals' = IntervalsAfter(intervals, tf)
    /\ elapsed' = 0
    /\ sinceFetch' = 0
    /\ UNCHANGED << pageVars, rejected, shownFor, lastReport, data, loading, error,
                    serverDate, balance, customStart, customEnd, refreshKey,
                    asrTimeframe, connectedCallsTimeframe, token, user,
                    location, tz, derived >>

\* onClick={() => setTimeframe(t.key)}; a click on the selected button changes
\* no state and runs no effect
SetTimeframe(tf) ==
    /\ Mounted
    /\ budget > 0
    /\ budget' = budget - 1
    /\ tf # timeframe
    /\ timeframe' = tf
    /\ timers' = LiveTimerEffect(timers, tf,
                     ClosureOf(serverDate, tf, customStart, customEnd))
    /\ calls' = calls (+) ReportEffect(TRUE, FALSE, FALSE,
                     ClosureOf(serverDate, tf, customStart, customEnd))
    /\ intervals' = IntervalsAfter(intervals, tf)
    /\ elapsed' = 0
    /\ sinceFetch' = 0
    /\ UNCHANGED << pageVars, rejected, shownFor, lastReport, data, loading, error, serverDate, balance, customStart,
                    customEnd, refreshKey, asrTimeframe, connectedCallsTimeframe,
                    token, user, location, tz, derived >>

\* onChange of the custom start input (rendered only when timeframe is custom)
SetCustomStart(v) ==
    /\ Mounted
    /\ budget > 0
    /\ budget' = budget - 1
    /\ timeframe = "custom"
    /\ v # customStart
    /\ customStart' = v
    /\ calls' = calls (+) ReportEffect(FALSE, FALSE, TRUE,
                     ClosureOf(serverDate, timeframe, v, customEnd))
    /\ UNCHANGED << pageVars, intervals, elapsed, sinceFetch, rejected, shownFor, lastReport, data, loading, error, serverDate, balance, timeframe,
                    customEnd, refreshKey, asrTimeframe, connectedCallsTimeframe,
                    timers, token, user, location, tz, derived >>

SetCustomEnd(v) ==
    /\ Mounted
    /\ budget > 0
    /\ budget' = budget - 1
    /\ timeframe = "custom"
    /\ v # customEnd
    /\ customEnd' = v
    /\ calls' = calls (+) ReportEffect(FALSE, FALSE, TRUE,
                     ClosureOf(serverDate, timeframe, customStart, v))
    /\ UNCHANGED << pageVars, intervals, elapsed, sinceFetch, rejected, shownFor, lastReport, data, loading, error, serverDate, balance, timeframe,
                    customStart, refreshKey, asrTimeframe, connectedCallsTimeframe,
                    timers, token, user, location, tz, derived >>

\* Reset: setCustomStart(""); setCustomEnd("")
ResetCustom ==
    /\ Mounted
    /\ budget > 0
    /\ budget' = budget - 1
    /\ timeframe = "custom"
    /\ customStart # NoDate \/ customEnd # NoDate
    /\ customStart' = NoDate
    /\ customEnd' = NoDate
    /\ calls' = calls (+) ReportEffect(FALSE, FALSE, TRUE,
                     ClosureOf(serverDate, timeframe, NoDate, NoDate))
    /\ UNCHANGED << pageVars, intervals, elapsed, sinceFetch, rejected, shownFor, lastReport, data, loading, error, serverDate, balance, timeframe,
                    refreshKey, asrTimeframe, connectedCallsTimeframe,
                    timers, token, user, location, tz, derived >>

\* Apply: onClick={() => fetchReport()}, disabled={!customStart || !customEnd}
Apply ==
    /\ Mounted
    /\ budget > 0
    /\ budget' = budget - 1
    /\ timeframe = "custom"
    /\ customStart # NoDate /\ customEnd # NoDate
    /\ loading' = TRUE
    /\ calls' = calls (+) One(ReportCall(FALSE, "apply", 0, Closure))
    /\ UNCHANGED << pageVars, intervals, elapsed, sinceFetch, rejected, shownFor, lastReport, data, error, serverDate, balance, timeframe, customStart,
                    customEnd, refreshKey, asrTimeframe, connectedCallsTimeframe,
                    timers, token, user, location, tz, derived >>

\* identifiers of the manualRefresh invocations still awaiting their Promise.all
Groups == {c.mr : c \in BagToSet(calls)} \ {0}
FreeGroup == CHOOSE g \in 1..(MaxEvents + MountEvents + 1) :
                 g \notin Groups /\ \A h \in 1..(g - 1) : h \in Groups

\* a manual refresh that also re-runs the interval effect
ManualRefreshRestarting ==
    /\ Mounted
    /\ budget > 0
    /\ budget' = budget - 1
    /\ loading' = TRUE
    /\ calls' = calls (+) One(ReportCall(FALSE, "manual", FreeGroup, Closure))
                      (+) One(SimpleCall("asr", "manual", FreeGroup))
                      (+) One(SimpleCall("cc", "manual", FreeGroup))
                      (+) One(SimpleCall("balance", "manual", FreeGroup))
    /\ timers' = LiveTimerEffect(timers, timeframe, Closure)
    /\ intervals' = IntervalsAfter(intervals, timeframe)
    /\ elapsed' = 0
    /\ UNCHANGED << pageVars, sinceFetch, rejected, shownFor, lastReport, data, error, serverDate, balance, timeframe, customStart,
                    customEnd, refreshKey, asrTimeframe, connectedCallsTimeframe,
                    token, user, location, tz, derived >>

\* Refresh: Promise.all([fetchReport(), fetchASRChart(),
\*                       fetchConnectedCallsChart(), fetchBalance()])
ManualRefresh ==
    /\ Mounted
    /\ budget > 0
    /\ budget' = budget - 1
    /\ loading' = TRUE
    /\ calls' = calls (+) One(ReportCall(FALSE, "manual", FreeGroup, Closure))
                      (+) One(SimpleCall("asr", "manual", FreeGroup))
                      (+) One(SimpleCall("cc", "manual", FreeGroup))
                      (+) One(SimpleCall("balance", "manual", FreeGroup))
    /\ UNCHANGED << pageVars, intervals, elapsed, sinceFetch, rejected, shownFor, lastReport, data, error, serverDate, balance, timeframe, customStart,
                    customEnd, refreshKey, asrTimeframe, connectedCallsTimeframe,
                    timers, token, user, location, tz, derived >>

\* onChange of the ASR select; its effect runs fetchASRChart
SetAsrTimeframe(v) ==
    /\ Mounted
    /\ budget > 0
    /\ budget' = budget - 1
    /\ v # asrTimeframe
    /\ asrTimeframe' = v
    /\ calls' = calls (+) One(SimpleCall("asr", "effect", 0))
    /\ UNCHANGED << pageVars, intervals, elapsed, sinceFetch, rejected, shownFor, lastReport, data, loading, error, serverDate, balance, timeframe,
                    customStart, customEnd, refreshKey, connectedCallsTimeframe,
                    timers, token, user, location, tz, derived >>

\* onClick={() => setConnectedCallsTimeframe(tf)}; the interval effect and the
\* fetchConnectedCallsChart effect both depend on it
SetConnectedCallsTimeframe(v) ==
    /\ Mounted
    /\ budget > 0
    /\ budget' = budget - 1
    /\ v # connectedCallsTimeframe
    /\ connectedCallsTimeframe' = v
    /\ timers' = LiveTimerEffect(timers, timeframe, Closure)
    /\ calls' = calls (+) One(SimpleCall("cc", "effect", 0))
    /\ intervals' = IntervalsAfter(intervals, timeframe)
    /\ elapsed' = 0
    /\ UNCHANGED sinceFetch
    /\ UNCHANGED << pageVars, rejected, shownFor, lastReport, data, loading, error, serverDate, balance, timeframe,
                    customStart, customEnd, refreshKey, asrTimeframe,
                    token, user, location, tz, derived >>

\* handleLogout
Logout ==
    /\ Mounted
    /\ budget > 0
    /\ budget' = budget - 1
    /\ token' = FALSE
    /\ user' = FALSE
    /\ location' = "/login"
    /\ UNCHANGED << pageVars, intervals, elapsed, sinceFetch, rejected, shownFor, lastReport, data, loading, error, serverDate, balance, timeframe,
                    customStart, customEnd, refreshKey, asrTimeframe,
                    connectedCallsTimeframe, timers, calls, tz,
                    derived >>

\* ------------------------------------------------------------------------
\* The interval callback
\* ------------------------------------------------------------------------
\* setInterval(() => { fetchReport(true); fetchBalance();
\*                     fetchConnectedCallsChart(); }, 60000)
Tick(t) ==
    /\ Mounted
    /\ budget > 0
    /\ budget' = budget - 1
    /\ BagIn(t, timers)
    /\ calls' = calls (+) One(ReportCall(TRUE, "timer", 0, t))
                      (+) One(SimpleCall("balance", "timer", 0))
                      (+) One(SimpleCall("cc", "timer", 0))
    /\ elapsed' = 0
    /\ sinceFetch' = 0
    /\ UNCHANGED intervals
    /\ UNCHANGED << pageVars, rejected, shownFor, lastReport, data, loading, error, serverDate, balance, timeframe,
                    customStart, customEnd, refreshKey, asrTimeframe,
                    connectedCallsTimeframe, timers, token, user, location,
                    tz, derived >>


\* ------------------------------------------------------------------------
\* Responses
\* ------------------------------------------------------------------------
\* what follows the /server-date answer sd: getDateRange goes on to /report,
\* init() goes on to fetchBalance
AfterServerDate(c, sd) ==
    IF c.kind = "report"
    THEN One([c EXCEPT !.stage = "report",
                       !.range = getDateRange(sd, c.clo.tf, c.clo.cs, c.clo.ce, tz)])
    ELSE Continue(c, ClosureOf(sd, timeframe, customStart, customEnd))

\* fetchServerDate, try branch: setServerDate(res.data.server_date)
ServerDateOk(c, sd) ==
    /\ Mounted
    /\ BagIn(c, calls)
    /\ c.stage = "server-date"
    /\ serverDate' = sd
    /\ calls' = Rest(c) (+) AfterServerDate(c, sd)
    /\ UNCHANGED << pageVars, intervals, elapsed, sinceFetch, rejected, shownFor, budget, lastReport, data, loading, error, balance, timeframe, customStart,
                    customEnd, refreshKey, asrTimeframe, connectedCallsTimeframe,
                    timers, token, user, location, tz, derived >>

\* fetchServerDate, catch branch: setServerDate(formatDate(new Date()))
ServerDateFail(c, f) ==
    /\ Mounted
    /\ BagIn(c, calls)
    /\ c.stage = "server-date"
    /\ serverDate' = ClockDate
    /\ calls' = Rest(c) (+) AfterServerDate(c, ClockDate)
    /\ Intercept(f)
    /\ rejected' = (rejected \/ Escapes(c))
    /\ UNCHANGED << pageVars, intervals, elapsed, sinceFetch, shownFor, budget, lastReport, data, loading, error, balance, timeframe, customStart,
                    customEnd, refreshKey, asrTimeframe, connectedCallsTimeframe,
                    timers, tz, derived >>

\* fetchBalance, try branch: setBalance(Number(res.data.current_balance || 0))
BalanceOk(c, b) ==
    /\ Mounted
    /\ BagIn(c, calls)
    /\ c.stage = "balance"
    /\ balance' = IF b = NoNumber THEN 0 ELSE b
    /\ refreshKey' = KeyAfter(c)
    /\ calls' = Rest(c) (+) Continue(c, Closure)
    /\ UNCHANGED << pageVars, intervals, elapsed, sinceFetch, rejected, shownFor, budget, lastReport, data, loading, error, serverDate, timeframe, customStart,
                    customEnd, asrTimeframe, connectedCallsTimeframe,
                    timers, token, user, location, tz, derived >>

\* fetchBalance, catch branch: logs only
BalanceFail(c, f) ==
    /\ Mounted
    /\ BagIn(c, calls)
    /\ c.stage = "balance"
    /\ refreshKey' = KeyAfter(c)
    /\ calls' = Rest(c) (+) Continue(c, Closure)
    /\ Intercept(f)
    /\ rejected' = (rejected \/ Escapes(c))
    /\ UNCHANGED << pageVars, intervals, elapsed, sinceFetch, shownFor, budget, lastReport, data, loading, error, serverDate, balance, timeframe,
                    customStart, customEnd, asrTimeframe, connectedCallsTimeframe,
                    timers, tz, derived >>

\* fetchASRChart / fetchConnectedCallsChart answered: neither the
\* chart series nor chartLoading is modelled
ChartOk(c) ==
    /\ Mounted
    /\ BagIn(c, calls)
    /\ c.stage \in {"asr", "cc"}
    /\ refreshKey' = KeyAfter(c)
    /\ calls' = Rest(c) (+) Continue(c, Closure)
    /\ UNCHANGED << pageVars, intervals, elapsed, sinceFetch, rejected, shownFor, budget, lastReport, data, loading, error, serverDate, balance, timeframe,
                    customStart, customEnd, asrTimeframe, connectedCallsTimeframe,
                    timers, token, user, location, tz, derived >>

ChartFail(c, f) ==
    /\ Mounted
    /\ BagIn(c, calls)
    /\ c.stage \in {"asr", "cc"}
    /\ refreshKey' = KeyAfter(c)
    /\ calls' = Rest(c) (+) Continue(c, Closure)
    /\ Intercept(f)
    /\ rejected' = (rejected \/ Escapes(c))
    /\ UNCHANGED << pageVars, intervals, elapsed, sinceFetch, shownFor, budget, lastReport, data, loading, error, serverDate, balance, timeframe,
                    customStart, customEnd, asrTimeframe, connectedCallsTimeframe,
                    timers, tz, derived >>

\* fetchReport, try branch after the /report response
ReportOk(c, body) ==
    /\ Mounted
    /\ BagIn(c, calls)
    /\ c.stage = "report"
    /\ data' = SnapshotAfter(data, body)
    /\ balance' = BalanceAfterReport(balance, body)
    /\ error' = Null
    /\ loading' = LoadingAfter(c, loading)
    /\ refreshKey' = KeyAfter(c)
    /\ calls' = Rest(c) (+) Continue(c, Closure)
    /\ lastReport' = IF error # Null THEN "recovered" ELSE "ok"
    /\ shownFor' = c.clo.tf
    /\ UNCHANGED << pageVars, intervals, elapsed, sinceFetch, rejected, budget, serverDate, timeframe, customStart, customEnd, asrTimeframe,
                    connectedCallsTimeframe, timers, token, user, location, tz,
                    derived >>

\* a catch branch that sends the failed request again
ReportFailRetrying(c, f) ==
    /\ Mounted
    /\ BagIn(c, calls)
    /\ c.stage = "report"
    /\ error' = ErrorText(f)
    /\ loading' = LoadingAfter(c, loading)
    /\ refreshKey' = KeyAfter(c)
    /\ calls' = calls (+) Continue(c, Closure)
    /\ Intercept(f)
    /\ lastReport' = "fail"
    /\ rejected' = (rejected \/ Escapes(c))
    /\ UNCHANGED << pageVars, intervals, elapsed, sinceFetch, shownFor, budget, data, serverDate, balance, timeframe, customStart, customEnd,
                    asrTimeframe, connectedCallsTimeframe, timers, tz, derived >>

\* fetchReport, catch branch
ReportFail(c, f) ==
    /\ Mounted
    /\ BagIn(c, calls)
    /\ c.stage = "report"
    /\ error' = ErrorText(f)
    /\ loading' = LoadingAfter(c, loading)
    /\ refreshKey' = KeyAfter(c)
    /\ calls' = Rest(c) (+) Continue(c, Closure)
    /\ Intercept(f)
    /\ lastReport' = "fail"
    /\ rejected' = (rejected \/ Escapes(c))
    /\ UNCHANGED << pageVars, intervals, elapsed, sinceFetch, shownFor, budget, data, serverDate, balance, timeframe, customStart, customEnd,
                    asrTimeframe, connectedCallsTimeframe, timers, tz, derived >>

Pending == BagToSet(calls)

Next ==
    \/ \E tf \in MainTimeframe : SetTimeframe(tf)
    \/ \E v \in CustomDates : SetCustomStart(v)
    \/ \E v \in CustomDates : SetCustomEnd(v)
    \/ ResetCustom
    \/ Apply
    \/ ManualRefresh
    \/ \E v \in AsrChoices : SetAsrTimeframe(v)
    \/ \E v \in ConnectedCallsChoices : SetConnectedCallsTimeframe(v)
    \/ Logout
    \/ \E t \in BagToSet(timers) : Tick(t)
    \/ \E c \in Pending, sd \in ServerDates : ServerDateOk(c, sd)
    \/ \E c \in Pending, f \in OtherFailures : ServerDateFail(c, f)
    \/ \E c \in Pending, b \in BalanceValues : BalanceOk(c, b)
    \/ \E c \in Pending, f \in OtherFailures : BalanceFail(c, f)
    \/ \E c \in Pending : ChartOk(c)
    \/ \E c \in Pending, f \in OtherFailures : ChartFail(c, f)
    \/ \E c \in Pending, body \in ReportBodies : ReportOk(c, body)
    \/ \E c \in Pending, f \in ReportFailures : ReportFail(c, f)

Spec == Init /\ [][Next]_vars

\* ------------------------------------------------------------------------
\* The controller with a clock: time passes in steps, and the interval fires
\* when its period has elapsed since it was created or last fired
\* ------------------------------------------------------------------------
\* one clock step passes; none passes while a scheduled interval is due
Advance ==
    /\ Mounted
    /\ timers # EmptyBag => elapsed < PeriodSteps
    /\ elapsed' = IF timers = EmptyBag THEN 0 ELSE elapsed + 1
    /\ sinceFetch' = IF timeframe # "live" THEN 0
                      ELSE IF sinceFetch > PeriodSteps THEN sinceFetch
                      ELSE sinceFetch + 1
    /\ UNCHANGED << pageVars, intervals, rejected, shownFor, budget, lastReport, data,
                    loading, error, serverDate, balance, timeframe, customStart,
                    customEnd, refreshKey, asrTimeframe, connectedCallsTimeframe,
                    timers, calls, token, user, location, tz, derived >>

\* the interval callback runs once 60000 ms have elapsed
Fire(t) == elapsed = PeriodSteps /\ Tick(t)

NextTimer ==
    \/ Advance
    \/ \E t \in BagToSet(timers) : Fire(t)
    \/ \E tf \in MainTimeframe : SetTimeframe(tf)
    \/ \E v \in CustomDates : SetCustomStart(v)
    \/ \E v \in CustomDates : SetCustomEnd(v)
    \/ ResetCustom
    \/ Apply
    \/ ManualRefresh
    \/ \E v \in AsrChoices : SetAsrTimeframe(v)
    \/ \E v \in ConnectedCallsChoices : SetConnectedCallsTimeframe(v)
    \/ Logout
    \/ \E c \in Pending, sd \in ServerDates : ServerDateOk(c, sd)
    \/ \E c \in Pending, f \in OtherFailures : ServerDateFail(c, f)
    \/ \E c \in Pending, b \in BalanceValues : BalanceOk(c, b)
    \/ \E c \in Pending, f \in OtherFailures : BalanceFail(c, f)
    \/ \E c \in Pending : ChartOk(c)
    \/ \E c \in Pending, f \in OtherFailures : ChartFail(c, f)
    \/ \E c \in Pending, body \in ReportBodies : ReportOk(c, body)
    \/ \E c \in Pending, f \in ReportFailures : ReportFail(c, f)

SpecTimer == Loaded /\ [][NextTimer]_vars

\* ------------------------------------------------------------------------
\* getDateRange on its own: any stored server date, timeframe, custom range
\* and time zone
\* ------------------------------------------------------------------------
InitDate ==
    /\ DashboardOnly
    /\ data = NoData
    /\ loading = FALSE
    /\ error = Null
    /\ serverDate \in DateWindow
    /\ balance = 0
    /\ timeframe \in MainTimeframe
    /\ customStart \in CustomDates
    /\ customEnd \in CustomDates
    /\ refreshKey = 0
    /\ asrTimeframe = "day"
    /\ connectedCallsTimeframe = "30min"
    /\ tz \in Zones
    /\ timers = EmptyBag
    /\ calls = EmptyBag
    /\ token = TRUE
    /\ user = TRUE
    /\ location = "/"
    /\ derived = NoRange
    /\ rejected = FALSE
    /\ intervals = 1
    /\ elapsed = 0
    /\ sinceFetch = 0
    /\ shownFor = "none"
    /\ budget = 0
    /\ lastReport = "none"

DeriveRange ==
    /\ derived = NoRange
    /\ derived' = getDateRange(serverDate, timeframe, customStart, customEnd, tz)
    /\ UNCHANGED << pageVars, intervals, elapsed, sinceFetch, rejected, shownFor, budget, lastReport, data, loading, error, serverDate, balance, timeframe,
                    customStart, customEnd, refreshKey, asrTimeframe,
                    connectedCallsTimeframe, timers, calls, token,
                    user, location, tz >>

NextDate == DeriveRange

SpecDate == InitDate /\ [][NextDate]_vars


\* ------------------------------------------------------------------------
\* The router (app.tsx), Login and the PaymentHistory page
\* ------------------------------------------------------------------------
\* const limit = 20
limit == 20

\* the URL paths explored: the three routes and one path no route matches
Paths == {"/", "/payment-history", "/login", "/reports"}
\* values of the Transaction Type select and of the two date inputs
TypeChoices == {"all", "deduction"}
FilterDates == {NoDate, 20240301}

\* the state of the dashboard, which this specification leaves alone
dashVars == << data, serverDate, timeframe, customStart, customEnd, refreshKey,
               asrTimeframe, connectedCallsTimeframe, timers, tz, lastReport,
               derived, rejected, shownFor, intervals, elapsed, sinceFetch,
               refreshTrigger >>

DashboardIdle ==
    /\ data = NoData
    /\ serverDate = NoDate
    /\ timeframe = "live"
    /\ customStart = NoDate
    /\ customEnd = NoDate
    /\ refreshKey = 0
    /\ asrTimeframe = "day"
    /\ connectedCallsTimeframe = "30min"
    /\ timers = EmptyBag
    /\ tz = "UTC"
    /\ lastReport = "none"
    /\ derived = NoRange
    /\ rejected = FALSE
    /\ shownFor = "none"
    /\ intervals = 0
    /\ elapsed = 0
    /\ sinceFetch = 0
    /\ refreshTrigger = 0

\* a route element that redirects: <Navigate to=... replace /> or navigate(...)
Redirect(to) == [to |-> to, page |-> "redirect"]

\* a ProtectedRoute that renders its children whatever the storage holds
ProtectedRouteOpen(path, children, tok) == [to |-> path, page |-> children]

\* ProtectedRoute: no token in localStorage at render -> <Navigate to="/login">
ProtectedRoute(path, children, tok) ==
    IF ~tok THEN Redirect("/login") ELSE [to |-> path, page |-> children]

\* <Routes>: the element rendered at path; Login navigates to "/" from its
\* effect when a token is stored
Element(path, tok) ==
    CASE path = "/login" ->
             IF tok THEN Redirect("/") ELSE [to |-> path, page |-> "login"]
      [] path = "/" -> ProtectedRoute(path, "dashboard", tok)
      [] path = "/payment-history" -> ProtectedRoute(path, "payments", tok)
      [] OTHER -> Redirect("/login")

\* the page shown once the redirects have been followed
RECURSIVE Resolve(_, _)
Resolve(path, tok) ==
    LET e == Element(path, tok)
    IN  IF e.page = "redirect" THEN Resolve(e.to, tok) ELSE e

\* a request of PaymentHistory awaiting its response, with its params
PayCall(kind, p, ty, sd, ed) ==
    [kind |-> kind,
     offset |-> IF kind = "payments" THEN (p - 1) * limit ELSE 0,
     type |-> IF kind = "balance" THEN "all" ELSE ty,
     startDate |-> IF kind = "balance" THEN NoDate ELSE sd,
     endDate |-> IF kind = "balance" THEN NoDate ELSE ed]

\* useEffect(() => { fetchBalance(); fetchStats(); fetchPayments(); },
\*           [fetchPayments, fetchStats]) of the render with these values
PayEffect(p, ty, sd, ed) ==
    One(PayCall("balance", p, ty, sd, ed)) (+) One(PayCall("stats", p, ty, sd, ed))
        (+) One(PayCall("payments", p, ty, sd, ed))

\* the effect runs when page or a filter differs from the previous render
PayEffectIf(changed, p, ty, sd, ed) ==
    IF changed THEN PayEffect(p, ty, sd, ed) ELSE EmptyBag

\* the router renders page pg: PaymentHistory mounts with its initial state
\* and runs its effect; the other pages hold none of this state
ShowPage(pg) ==
    /\ shown' = pg
    /\ payments' = NoPayments
    /\ page' = 1
    /\ type' = "all"
    /\ startDate' = NoDate
    /\ endDate' = NoDate
    /\ applied' = FALSE
    /\ error' = Null
    /\ balance' = 0
    /\ loading' = (pg = "payments")
    /\ calls' = IF pg = "payments" THEN PayEffect(1, "all", NoDate, NoDate)
                ELSE EmptyBag

\* the document is loaded at location: the first render of App.  Line 19 of
\* app.tsx, where the state of setIsAuthenticated would be declared, is
\* empty: the mount effect of App either sets that state, which nothing
\* reads, or throws, and React unmounts the tree after the first commit
Render(declared) ==
    /\ shown = "none"
    /\ LET e == Element(location, token)
           r == Resolve(location, token)
       IN  IF declared
           THEN location' = r.to /\ ShowPage(r.page)
           ELSE location' = e.to /\ ShowPage("blank")
    /\ UNCHANGED << token, user, budget >>
    /\ UNCHANGED dashVars

\* the user opens a URL: the document is loaded anew
GoTo(path) ==
    /\ shown # "none"
    /\ budget > 0
    /\ budget' = budget - 1
    /\ location' = path
    /\ ShowPage("none")
    /\ UNCHANGED << token, user >>
    /\ UNCHANGED dashVars

\* <Link to="/payment-history"> of the dashboard, <Link to="/"> of
\* PaymentHistory: the router renders the route without loading the document
FollowLink ==
    /\ shown \in {"dashboard", "payments"}
    /\ budget > 0
    /\ budget' = budget - 1
    /\ LET r == Resolve(IF shown = "dashboard" THEN "/payment-history" ELSE "/",
                        token)
       IN  location' = r.to /\ ShowPage(r.page)
    /\ UNCHANGED << token, user >>
    /\ UNCHANGED dashVars

\* handleLogin with a successful response: the token is stored, navigate('/')
LoginOk ==
    /\ shown = "login"
    /\ budget > 0
    /\ budget' = budget - 1
    /\ token' = TRUE
    /\ user' = TRUE
    /\ LET r == Resolve("/", TRUE)
       IN  location' = r.to /\ ShowPage(r.page)
    /\ UNCHANGED dashVars

\* handleLogout of the dashboard: the storage is cleared and the document is
\* loaded at /login
DashboardLogout ==
    /\ shown = "dashboard"
    /\ budget > 0
    /\ budget' = budget - 1
    /\ token' = FALSE
    /\ user' = FALSE
    /\ location' = "/login"
    /\ ShowPage("none")
    /\ UNCHANGED dashVars

\* ------------------------------------------------------------------------
\* PaymentHistory: filters and pagination
\* ------------------------------------------------------------------------
OnPayments == shown = "payments"

\* onChange of the Transaction Type select
SetType(v) ==
    /\ OnPayments
    /\ budget > 0
    /\ budget' = budget - 1
    /\ v # type
    /\ type' = v
    /\ loading' = TRUE
    /\ applied' = FALSE
    /\ calls' = calls (+) PayEffect(page, v, startDate, endDate)
    /\ UNCHANGED << shown, payments, page, startDate, endDate, error, balance,
                    token, user, location >>
    /\ UNCHANGED dashVars

\* onChange of the Start Date input
SetStartDate(v) ==
    /\ OnPayments
    /\ budget > 0
    /\ budget' = budget - 1
    /\ v # startDate
    /\ startDate' = v
    /\ loading' = TRUE
    /\ applied' = FALSE
    /\ calls' = calls (+) PayEffect(page, type, v, endDate)
    /\ UNCHANGED << shown, payments, page, type, endDate, error, balance,
                    token, user, location >>
    /\ UNCHANGED dashVars

\* onChange of the End Date input
SetEndDate(v) ==
    /\ OnPayments
    /\ budget > 0
    /\ budget' = budget - 1
    /\ v # endDate
    /\ endDate' = v
    /\ loading' = TRUE
    /\ applied' = FALSE
    /\ calls' = calls (+) PayEffect(page, type, startDate, v)
    /\ UNCHANGED << shown, payments, page, type, startDate, error, balance,
                    token, user, location >>
    /\ UNCHANGED dashVars

\* a Prev button that is never disabled
PrevNeverDisabled(p) == FALSE

\* Prev: disabled={page === 1}
PrevDisabled(p) == p = 1

\* Prev: setPage((p) => p - 1)
PrevPage ==
    /\ OnPayments
    /\ budget > 0
    /\ budget' = budget - 1
    /\ ~PrevDisabled(page)
    /\ page' = page - 1
    /\ loading' = TRUE
    /\ applied' = FALSE
    /\ calls' = calls (+) PayEffect(page - 1, type, startDate, endDate)
    /\ UNCHANGED << shown, payments, type, startDate, endDate, error, balance,
                    token, user, location >>
    /\ UNCHANGED dashVars

\* Next: disabled={payments.length < limit}, setPage((p) => p + 1)
NextPage ==
    /\ OnPayments
    /\ budget > 0
    /\ budget' = budget - 1
    /\ payments.full
    /\ page' = page + 1
    /\ loading' = TRUE
    /\ applied' = FALSE
    /\ calls' = calls (+) PayEffect(page + 1, type, startDate, endDate)
    /\ UNCHANGED << shown, payments, type, startDate, endDate, error, balance,
                    token, user, location >>
    /\ UNCHANGED dashVars

\* Apply Filters: setPage(1); fetchPayments(); fetchStats().  The handler
\* calls the fetchPayments of the render it belongs to, which closes over the
\* page shown at the click; the effect runs after the render with page 1
\* when the page was another
ApplyFilters ==
    /\ OnPayments
    /\ budget > 0
    /\ budget' = budget - 1
    /\ page' = 1
    /\ loading' = TRUE
    /\ applied' = TRUE
    /\ calls' = calls
                  (+) One(PayCall("payments", page, type, startDate, endDate))
                  (+) One(PayCall("stats", page, type, startDate, endDate))
                  (+) PayEffectIf(page # 1, 1, type, startDate, endDate)
    /\ UNCHANGED << shown, payments, type, startDate, endDate, error, balance,
                    token, user, location >>
    /\ UNCHANGED dashVars

\* ------------------------------------------------------------------------
\* PaymentHistory: responses
\* ------------------------------------------------------------------------
\* the interceptor's 401 loads the document at /login: the page is gone and
\* the requests in flight with it
AfterFailure(c, f) ==
    /\ Intercept(f)
    /\ shown' = IF f.status = 401 THEN "none" ELSE shown
    /\ calls' = IF f.status = 401 THEN EmptyBag ELSE Rest(c)

\* a catch branch that empties the list
PaymentsAfterFailureEmptied(old) == NoPayments

\* fetchPayments, catch branch: setPayments is not called
PaymentsAfterFailure(old) == old

\* fetchPayments, try branch: setPayments(res.data.payments || []);
\* full: the response holds limit rows
PaymentsOk(c, full) ==
    /\ OnPayments
    /\ BagIn(c, calls)
    /\ c.kind = "payments"
    /\ payments' = [offset |-> c.offset, type |-> c.type,
                    startDate |-> c.startDate, endDate |-> c.endDate,
                    full |-> full]
    /\ error' = Null
    /\ loading' = FALSE
    /\ calls' = Rest(c)
    /\ UNCHANGED << shown, page, type, startDate, endDate, applied, balance,
                    token, user, location, budget >>
    /\ UNCHANGED dashVars

\* fetchPayments, catch and finally
PaymentsFail(c, f) ==
    /\ OnPayments
    /\ BagIn(c, calls)
    /\ c.kind = "payments"
    /\ payments' = PaymentsAfterFailure(payments)
    /\ error' = "Failed to fetch payments."
    /\ loading' = FALSE
    /\ AfterFailure(c, f)
    /\ UNCHANGED << page, type, startDate, endDate, applied, balance, budget >>
    /\ UNCHANGED dashVars

\* fetchStats answered (the statistics are not modelled)
StatsOk(c) ==
    /\ OnPayments
    /\ BagIn(c, calls)
    /\ c.kind = "stats"
    /\ calls' = Rest(c)
    /\ UNCHANGED << shown, payments, page, type, startDate, endDate, applied,
                    error, loading, balance, token, user, location, budget >>
    /\ UNCHANGED dashVars

StatsFail(c, f) ==
    /\ OnPayments
    /\ BagIn(c, calls)
    /\ c.kind = "stats"
    /\ AfterFailure(c, f)
    /\ UNCHANGED << payments, page, type, startDate, endDate, applied,
                    error, loading, balance, budget >>
    /\ UNCHANGED dashVars

\* fetchBalance of PaymentHistory: setBalance(res.data.current_balance || 0)
PayBalanceOk(c, b) ==
    /\ OnPayments
    /\ BagIn(c, calls)
    /\ c.kind = "balance"
    /\ balance' = IF b = NoNumber THEN 0 ELSE b
    /\ calls' = Rest(c)
    /\ UNCHANGED << shown, payments, page, type, startDate, endDate, applied,
                    error, loading, token, user, location, budget >>
    /\ UNCHANGED dashVars

PayBalanceFail(c, f) ==
    /\ OnPayments
    /\ BagIn(c, calls)
    /\ c.kind = "balance"
    /\ AfterFailure(c, f)
    /\ UNCHANGED << payments, page, type, startDate, endDate, applied,
                    error, loading, balance, budget >>
    /\ UNCHANGED dashVars

\* the document loaded at any path, with or without a stored token
PageLoad ==
    /\ DashboardIdle
    /\ budget = MaxEvents
    /\ location \in Paths
    /\ token \in BOOLEAN
    /\ user = token
    /\ shown = "none"
    /\ payments = NoPayments
    /\ page = 1
    /\ type = "all"
    /\ startDate = NoDate
    /\ endDate = NoDate
    /\ applied = FALSE
    /\ error = Null
    /\ balance = 0
    /\ loading = FALSE
    /\ calls = EmptyBag

\* PaymentHistory at rest on its first page, a full page of rows shown
PaymentsLoaded ==
    /\ DashboardIdle
    /\ budget = MaxEvents
    /\ location = "/payment-history"
    /\ token = TRUE
    /\ user = TRUE
    /\ shown = "payments"
    /\ payments = [offset |-> 0, type |-> "all", startDate |-> NoDate,
                   endDate |-> NoDate, full |-> TRUE]
    /\ page = 1
    /\ type = "all"
    /\ startDate = NoDate
    /\ endDate = NoDate
    /\ applied = FALSE
    /\ error = Null
    /\ balance = 50
    /\ loading = FALSE
    /\ calls = EmptyBag

InitApp == PageLoad \/ PaymentsLoaded

NextApp ==
    \/ \E declared \in BOOLEAN : Render(declared)
    \/ \E path \in Paths : GoTo(path)
    \/ FollowLink
    \/ LoginOk
    \/ DashboardLogout
    \/ \E v \in TypeChoices : SetType(v)
    \/ \E v \in FilterDates : SetStartDate(v)
    \/ \E v \in FilterDates : SetEndDate(v)
    \/ PrevPage
    \/ NextPage
    \/ ApplyFilters
    \/ \E c \in Pending, full \in BOOLEAN : PaymentsOk(c, full)
    \/ \E c \in Pending, f \in OtherFailures : PaymentsFail(c, f)
    \/ \E c \in Pending : StatsOk(c)
    \/ \E c \in Pending, f \in OtherFailures : StatsFail(c, f)
    \/ \E c \in Pending, b \in BalanceValues : PayBalanceOk(c, b)
    \/ \E c \in Pending, f \in OtherFailures : PayBalanceFail(c, f)

SpecApp == InitApp /\ [][NextApp]_vars

\* ------------------------------------------------------------------------
\* The legacy dashboard (the Dashboard component of part_003)
\* ------------------------------------------------------------------------
LegacyTimeframe == {"daily", "yesterday", "weekly", "monthly", "custom"}

\* the variables the legacy dashboard does not have
legacyOther == << refreshKey, asrTimeframe, connectedCallsTimeframe, token,
                  user, location, lastReport, derived, shownFor, intervals,
                  elapsed, sinceFetch, rejected, payments, page, type,
                  startDate, endDate, applied, tz, shown >>

OnLegacy == shown = "legacy"

\* getDateRange of the legacy dashboard, today being serverDate or the
\* result of fetchServerDate
LegacyDateRange(today, tf, cs, ce, z) ==
    CASE tf = "daily" -> [startDate |-> today, endDate |-> today]
      [] tf = "yesterday" ->
             [startDate |-> DaysBefore(today, 1, z),
              endDate |-> DaysBefore(today, 1, z)]
      [] tf = "weekly" -> [startDate |-> DaysBefore(today, 7, z), endDate |-> today]
      [] tf = "monthly" -> [startDate |-> DaysBefore(today, 30, z), endDate |-> today]
      [] OTHER -> [startDate |-> IF cs # NoDate THEN cs ELSE today,
                   endDate |-> IF ce # NoDate THEN ce ELSE today]

LegacyClosure == ClosureOf(serverDate, timeframe, customStart, customEnd)
\* the first render: initialize() closes over it
LegacyFirstClosure == ClosureOf(NoDate, "daily", NoDate, NoDate)

\* a guard that looks at the start date only
LegacyIncompleteStartOnly(clo) == clo.tf = "custom" /\ clo.cs = NoDate

\* if (timeframe === "custom" && (!customStart || !customEnd)) return;
LegacyIncomplete(clo) ==
    clo.tf = "custom" /\ (clo.cs = NoDate \/ clo.ce = NoDate)

\* fetchReport past its guard, up to its first request: getDateRange awaits
\* fetchServerDate when the closed-over serverDate is null
LegacyReportCall(silent, origin, clo) ==
    [kind |-> "report",
     stage |-> IF clo.sd = NoDate THEN "server-date" ELSE "report",
     silent |-> silent, origin |-> origin, mr |-> 0, clo |-> clo,
     range |-> IF clo.sd = NoDate THEN NoRange
               ELSE LegacyDateRange(clo.sd, clo.tf, clo.cs, clo.ce, tz)]

\* fetchReport(silent): the requests it leaves in flight
LegacyFetchReport(silent, origin, clo) ==
    IF LegacyIncomplete(clo) THEN EmptyBag
    ELSE One(LegacyReportCall(silent, origin, clo))

\* if (!silent) setLoading(true), after the guard
LegacyLoadingAtStart(silent, clo, old) ==
    IF ~silent /\ ~LegacyIncomplete(clo) THEN TRUE ELSE old

\* useEffect(() => { fetchReport(true); }, [timeframe, refreshTrigger])
LegacyReportEffect(changed, clo) ==
    IF changed THEN LegacyFetchReport(TRUE, "effect", clo) ELSE EmptyBag

\* a tick that leaves refreshTrigger as it is
LegacyTriggerKept(p) == p

\* setRefreshTrigger((p) => p + 1)
LegacyTriggerAfter(p) == p + 1

\* initialize(): await fetchServerDate(); await fetchBalance();
\*               await fetchReport(true)
LegacyInitNext(c) ==
    CASE c.origin = "init" /\ c.kind = "server-date" ->
             One(SimpleCall("balance", "init", 0))
      [] c.origin = "init" /\ c.kind = "balance" ->
             LegacyFetchReport(TRUE, "init", LegacyFirstClosure)
      [] OTHER -> EmptyBag

\* ------------------------------------------------------------------------
\* Legacy dashboard: user actions and the interval
\* ------------------------------------------------------------------------
\* onClick={() => setTimeframe(frame)}
LegacySetTimeframe(tf) ==
    /\ OnLegacy
    /\ budget > 0
    /\ budget' = budget - 1
    /\ timeframe' = tf
    /\ calls' = calls (+) LegacyReportEffect(tf # timeframe,
                              ClosureOf(serverDate, tf, customStart, customEnd))
    /\ UNCHANGED << data, loading, error, serverDate, balance, customStart,
                    customEnd, refreshTrigger, timers >>
    /\ UNCHANGED legacyOther

\* onChange={(e) => setCustomStart(e.target.value)}, shown when custom
LegacySetCustomStart(v) ==
    /\ OnLegacy
    /\ timeframe = "custom"
    /\ budget > 0
    /\ budget' = budget - 1
    /\ customStart' = v
    /\ UNCHANGED << data, loading, error, serverDate, balance, timeframe,
                    customEnd, refreshTrigger, timers, calls >>
    /\ UNCHANGED legacyOther

\* onChange={(e) => setCustomEnd(e.target.value)}
LegacySetCustomEnd(v) ==
    /\ OnLegacy
    /\ timeframe = "custom"
    /\ budget > 0
    /\ budget' = budget - 1
    /\ customEnd' = v
    /\ UNCHANGED << data, loading, error, serverDate, balance, timeframe,
                    customStart, refreshTrigger, timers, calls >>
    /\ UNCHANGED legacyOther

\* Refresh: fetchBalance(); fetchReport()
LegacyRefresh ==
    /\ OnLegacy
    /\ budget > 0
    /\ budget' = budget - 1
    /\ loading' = LegacyLoadingAtStart(FALSE, LegacyClosure, loading)
    /\ calls' = calls (+) One(SimpleCall("balance", "manual", 0))
                      (+) LegacyFetchReport(FALSE, "manual", LegacyClosure)
    /\ UNCHANGED << data, error, serverDate, balance, timeframe, customStart,
                    customEnd, refreshTrigger, timers >>
    /\ UNCHANGED legacyOther

\* Apply Range: onClick={() => fetchReport()},
\* disabled={!customStart || !customEnd}, shown when custom
LegacyApply ==
    /\ OnLegacy
    /\ timeframe = "custom"
    /\ customStart # NoDate
    /\ customEnd # NoDate
    /\ budget > 0
    /\ budget' = budget - 1
    /\ loading' = LegacyLoadingAtStart(FALSE, LegacyClosure, loading)
    /\ calls' = calls (+) LegacyFetchReport(FALSE, "apply", LegacyClosure)
    /\ UNCHANGED << data, error, serverDate, balance, timeframe, customStart,
                    customEnd, refreshTrigger, timers >>
    /\ UNCHANGED legacyOther

\* the callback of setInterval(..., 60000): fetchBalance();
\* setRefreshTrigger((p) => p + 1); the render that follows runs the
\* refreshTrigger effect
LegacyTick ==
    /\ OnLegacy
    /\ timers # EmptyBag
    /\ budget > 0
    /\ budget' = budget - 1
    /\ refreshTrigger' = LegacyTriggerAfter(refreshTrigger)
    /\ calls' = calls (+) One(SimpleCall("balance", "timer", 0))
                      (+) LegacyReportEffect(refreshTrigger' # refreshTrigger,
                                             LegacyClosure)
    /\ UNCHANGED << data, loading, error, serverDate, balance, timeframe,
                    customStart, customEnd, timers >>
    /\ UNCHANGED legacyOther

\* ------------------------------------------------------------------------
\* Legacy dashboard: responses (axios is called directly: no interceptor)
\* ------------------------------------------------------------------------
\* the call after its fetchServerDate has returned today
LegacyAfterServerDate(c, today) ==
    IF c.kind = "report"
    THEN One([c EXCEPT !.stage = "report",
                       !.range = LegacyDateRange(today, c.clo.tf, c.clo.cs,
                                                 c.clo.ce, tz)])
    ELSE LegacyInitNext(c)

\* fetchServerDate, try branch: setServerDate(res.data.server_date)
LegacyServerDateOk(c, sd) ==
    /\ OnLegacy
    /\ BagIn(c, calls)
    /\ c.stage = "server-date"
    /\ serverDate' = sd
    /\ calls' = Rest(c) (+) LegacyAfterServerDate(c, sd)
    /\ UNCHANGED << data, loading, error, balance, timeframe, customStart,
                    customEnd, refreshTrigger, timers, budget >>
    /\ UNCHANGED legacyOther

\* fetchServerDate, catch branch: returns formatDate(new Date()) and stores
\* nothing
LegacyServerDateFail(c, f) ==
    /\ OnLegacy
    /\ BagIn(c, calls)
    /\ c.stage = "server-date"
    /\ calls' = Rest(c) (+) LegacyAfterServerDate(c, ClockDate)
    /\ UNCHANGED << data, loading, error, serverDate, balance, timeframe,
                    customStart, customEnd, refreshTrigger, timers, budget >>
    /\ UNCHANGED legacyOther

\* fetchBalance, try branch: setBalance(res.data.current_balance)
LegacyBalanceOk(c, b) ==
    /\ OnLegacy
    /\ BagIn(c, calls)
    /\ c.stage = "balance"
    /\ balance' = b
    /\ calls' = Rest(c) (+) LegacyInitNext(c)
    /\ UNCHANGED << data, loading, error, serverDate, timeframe, customStart,
                    customEnd, refreshTrigger, timers, budget >>
    /\ UNCHANGED legacyOther

\* fetchBalance, catch branch
LegacyBalanceFail(c, f) ==
    /\ OnLegacy
    /\ BagIn(c, calls)
    /\ c.stage = "balance"
    /\ calls' = Rest(c) (+) LegacyInitNext(c)
    /\ UNCHANGED << data, loading, error, serverDate, balance, timeframe,
                    customStart, customEnd, refreshTrigger, timers, budget >>
    /\ UNCHANGED legacyOther

\* finally { if (!silent) setLoading(false); }
LegacyLoadingAtEnd(c, old) == IF c.silent THEN old ELSE FALSE

\* fetchReport, try branch after the /report response
LegacyReportOk(c, body) ==
    /\ OnLegacy
    /\ BagIn(c, calls)
    /\ c.stage = "report"
    /\ data' = body
    /\ error' = Null
    /\ balance' = IF body.balance # NoNumber THEN body.balance ELSE balance
    /\ loading' = LegacyLoadingAtEnd(c, loading)
    /\ calls' = Rest(c)
    /\ UNCHANGED << serverDate, timeframe, customStart, customEnd,
                    refreshTrigger, timers, budget >>
    /\ UNCHANGED legacyOther

\* setError(err.response?.data?.error || "Failed to fetch data from backend.")
LegacyErrorText(f) ==
    IF f.error \in {Undef, ""} THEN "Failed to fetch data from backend."
    ELSE f.error

\* fetchReport, catch and finally
LegacyReportFail(c, f) ==
    /\ OnLegacy
    /\ BagIn(c, calls)
    /\ c.stage = "report"
    /\ error' = LegacyErrorText(f)
    /\ loading' = LegacyLoadingAtEnd(c, loading)
    /\ calls' = Rest(c)
    /\ UNCHANGED << data, serverDate, balance, timeframe, customStart,
                    customEnd, refreshTrigger, timers, budget >>
    /\ UNCHANGED legacyOther

\* what the legacy dashboard does not have, at rest
LegacyOtherIdle ==
    /\ shown = "legacy"
    /\ refreshKey = 0
    /\ asrTimeframe = "day"
    /\ connectedCallsTimeframe = "30min"
    /\ token = TRUE
    /\ user = TRUE
    /\ location = "/"
    /\ lastReport = "none"
    /\ derived = NoRange
    /\ shownFor = "none"
    /\ intervals = 1
    /\ elapsed = 0
    /\ sinceFetch = 0
    /\ rejected = FALSE
    /\ payments = NoPayments
    /\ page = 1
    /\ type = "all"
    /\ startDate = NoDate
    /\ endDate = NoDate
    /\ applied = FALSE
    /\ tz = "America/New_York"

\* the first commit: the three mount effects have run
LegacyMount ==
    /\ LegacyOtherIdle
    /\ budget = MountEvents
    /\ data = NoData
    /\ loading = FALSE
    /\ error = Null
    /\ serverDate = NoDate
    /\ balance = 0
    /\ timeframe = "daily"
    /\ customStart = NoDate
    /\ customEnd = NoDate
    /\ refreshTrigger = 0
    /\ timers = One(LegacyFirstClosure)
    /\ calls = One(SimpleCall("server-date", "init", 0))
                 (+) LegacyReportEffect(TRUE, LegacyFirstClosure)

\* the page at rest, every request answered: as loaded, or with the custom
\* range selected and its start date entered or not
LegacyLoaded ==
    /\ LegacyOtherIdle
    /\ budget = MaxEvents
    /\ data = [total_calls |-> 10, balance |-> NoNumber]
    /\ loading = FALSE
    /\ error = Null
    /\ serverDate \in ServerDates
    /\ balance = 50
    /\ \/ timeframe = "daily" /\ customStart = NoDate
       \/ timeframe = "custom" /\ customStart \in {NoDate, 20240305}
    /\ customEnd = NoDate
    /\ refreshTrigger = 0
    /\ timers = One(LegacyFirstClosure)
    /\ calls = EmptyBag

InitLegacy == LegacyMount \/ LegacyLoaded

NextLegacy ==
    \/ \E tf \in LegacyTimeframe : LegacySetTimeframe(tf)
    \/ \E v \in CustomDates : LegacySetCustomStart(v)
    \/ \E v \in CustomDates : LegacySetCustomEnd(v)
    \/ LegacyRefresh
    \/ LegacyApply
    \/ LegacyTick
    \/ \E c \in Pending, sd \in ServerDates : LegacyServerDateOk(c, sd)
    \/ \E c \in Pending, f \in OtherFailures : LegacyServerDateFail(c, f)
    \/ \E c \in Pending, b \in BalanceValues : LegacyBalanceOk(c, b)
    \/ \E c \in Pending, f \in OtherFailures : LegacyBalanceFail(c, f)
    \/ \E c \in Pending, body \in ReportBodies : LegacyReportOk(c, body)
    \/ \E c \in Pending, f \in ReportFailures : LegacyReportFail(c, f)

SpecLegacy == InitLegacy /\ [][NextLegacy]_vars

\* ------------------------------------------------------------------------
\* Calendar reference: the date n days before s, counted day by day
\* ------------------------------------------------------------------------
DaysIn(y, m) ==
    CASE m \in {4, 6, 9, 11} -> 30
      [] m = 2 -> IF IsLeap(y) THEN 29 ELSE 28
      [] OTHER -> 31

PrevDay(s) ==
    IF DayOf(s) > 1 THEN s - 1
    ELSE IF MonthOf(s) > 1
         THEN EncodeDate(YearOf(s), MonthOf(s) - 1, DaysIn(YearOf(s), MonthOf(s) - 1))
         ELSE EncodeDate(YearOf(s) - 1, 12, 31)

RECURSIVE CalendarMinus(_, _)
CalendarMinus(s, n) == IF n = 0 THEN s ELSE CalendarMinus(PrevDay(s), n - 1)

Derived == derived # NoRange

\* ------------------------------------------------------------------------
\* Claims on getDateRange (specification SpecDate)
\* ------------------------------------------------------------------------

\* C8 as stated: for every server date and every timeframe other than custom,
\* the derived range ends on the server date.
C8_EndIsServerDate ==
    (Derived /\ timeframe # "custom") => derived.endDate = serverDate

\* C8 amended: the derived range ends on the server date for live, weekly and
\* monthly; for yesterday it ends on its own start date, a date before the
\* server date.
C8_EndDate ==
    Derived =>
        /\ timeframe \in {"live", "weekly", "monthly"} => derived.endDate = serverDate
        /\ timeframe = "yesterday" =>
               derived.endDate = derived.startDate /\ derived.endDate < serverDate

C8_Witness ==
    /\ Derived
    /\ timeframe = "weekly"
    /\ derived.endDate = serverDate
    /\ derived.startDate < serverDate

\* C9: for every server date, weekly yields (d - 7 days, d) and monthly
\* yields (d - 30 days, d), month and year boundaries included.
C9_ExactOffsets ==
    Derived =>
        /\ timeframe = "weekly" =>
               derived = [startDate |-> CalendarMinus(serverDate, 7),
                          endDate |-> serverDate]
        /\ timeframe = "monthly" =>
               derived = [startDate |-> CalendarMinus(serverDate, 30),
                          endDate |-> serverDate]

\* C10: for every server date, live yields (d, d) and yesterday yields
\* (d - 1 day, d - 1 day), the first day of a month or year included.
C10_LiveAndYesterday ==
    Derived =>
        /\ timeframe = "live" =>
               derived = [startDate |-> serverDate, endDate |-> serverDate]
        /\ timeframe = "yesterday" =>
               derived = [startDate |-> CalendarMinus(serverDate, 1),
                          endDate |-> CalendarMinus(serverDate, 1)]

\* C11: for the custom timeframe the derived start is the custom start when
\* that is non-empty and the server date otherwise, and independently the
\* derived end is the custom end when non-empty and the server date otherwise.
C11_CustomFallback ==
    (Derived /\ timeframe = "custom") =>
        /\ derived.startDate =
               (IF customStart = NoDate THEN serverDate ELSE customStart)
        /\ derived.endDate =
               (IF customEnd = NoDate THEN serverDate ELSE customEnd)

\* only the end was entered: the start falls back, the end does not
C11_Witness ==
    /\ Derived
    /\ timeframe = "custom"
    /\ customStart = NoDate
    /\ customEnd # NoDate
    /\ derived.startDate = serverDate
    /\ derived.endDate = customEnd
    /\ customEnd # serverDate


\* ------------------------------------------------------------------------
\* Claims on the controller (specification Spec)
\* ------------------------------------------------------------------------
\* the calls a step adds to those in flight
Issued == calls' (-) calls
\* the calls a step takes from those in flight
Gone == BagToSet(calls (-) calls')
NonEmptyText(e) == e \notin {Null, Undef, ""}
Reports == {c \in Pending : c.kind = "report"}

\* C1: whenever a /report request fails (silent or not), the snapshot after
\* the failure is the snapshot before it and the error is a non-empty string.
C1_FailureKeepsSnapshot ==
    [][ \A c \in Pending, f \in ReportFailures :
            (data' = data /\ NonEmptyText(error')) \/ ~ReportFail(c, f) ]_vars

C1_Witness ==
    /\ lastReport = "fail"
    /\ data \in ReportBodies
    /\ error = "Failed to fetch report"

\* C2: whenever a /report request succeeds while the error is set, the error
\* becomes null and the snapshot becomes exactly the response body.
C2_SuccessClearsError ==
    [][ \A c \in Pending, body \in ReportBodies :
            (ReportOk(c, body) /\ error # Null)
                => (error' = Null /\ data' = body) ]_vars

C2_Witness ==
    /\ lastReport = "recovered"
    /\ error = Null
    /\ data \in ReportBodies

\* C3: while the dashboard is mounted, exactly one interval is scheduled when
\* the timeframe is live and none otherwise.
C3_OneTimerIffLive ==
    Mounted => BagCardinality(timers) = (IF timeframe = "live" THEN 1 ELSE 0)

\* live again with an interval created after the mount (it closes over a
\* stored server date)
C3_Witness ==
    /\ Mounted
    /\ timeframe = "live"
    /\ BagCardinality(timers) = 1
    /\ \E t \in BagToSet(timers) : t.sd # NoDate

\* C4: the interval callback runs only while the timeframe is live, and the
\* step that switches away from live leaves no interval and issues exactly
\* one call, the silent report fetch of the timeframe effect.
C4_NoTimerFetchOffLive ==
    [][ /\ (\E c \in BagToSet(Issued) :
                c.origin = "timer" /\ BagCardinality(calls') > BagCardinality(calls))
            => timeframe = "live"
        /\ (timeframe = "live" /\ timeframe' # "live")
            => /\ timers' = EmptyBag
               /\ BagCardinality(Issued) = 1
               /\ \A c \in BagToSet(Issued) :
                      c.kind = "report" /\ c.silent /\ c.origin = "effect" ]_vars

\* a tick happened while live, then the timeframe was switched to yesterday
C4_Witness ==
    /\ Mounted
    /\ timeframe = "yesterday"
    /\ timers = EmptyBag
    /\ \E c \in Pending : c.origin = "timer"
    /\ \E c \in Pending : c.origin = "effect" /\ c.clo.tf = "yesterday"

\* C5: a step that changes customStart or customEnd (an input edit or Reset)
\* issues no request.
C5_CustomEditIssuesNothing ==
    [][ (customStart' # customStart \/ customEnd' # customEnd)
            => calls' = calls ]_vars

\* only the end date is populated, after edits, and nothing is in flight
C5_Witness ==
    /\ Mounted
    /\ timeframe = "custom"
    /\ customStart = NoDate
    /\ customEnd # NoDate
    /\ calls = EmptyBag

\* C6: no /report request is in flight that was issued for the custom
\* timeframe with an empty custom start or end date.
C6_NoIncompleteCustomRequest ==
    \A c \in Reports :
        (c.stage = "report" /\ c.clo.tf = "custom")
            => (c.clo.cs # NoDate /\ c.clo.ce # NoDate)

\* C7: every setTimeframe(tf) stores tf; for tf other than custom it issues
\* exactly one silent report fetch whose range is derived from tf, and for
\* custom it issues nothing.
C7_SetTimeframeFetches ==
    [][ \A tf \in MainTimeframe :
            SetTimeframe(tf) =>
                /\ timeframe' = tf
                /\ tf # "custom" =>
                       /\ BagCardinality(Issued) = 1
                       /\ \A c \in BagToSet(Issued) :
                              /\ c.kind = "report" /\ c.silent
                              /\ c.clo.tf = tf
                              /\ c.stage = "report" =>
                                     c.range = getDateRange(c.clo.sd, tf, customStart,
                                                            customEnd, tz)
                /\ tf = "custom" => Issued = EmptyBag ]_vars

\* the report fetches a step starts (a call that reaches its /report request
\* after awaiting /server-date closes over an empty server date)
Started ==
    {c \in BagToSet(Issued) :
        c.kind = "report" /\ (c.stage = "report" => c.clo.sd # NoDate)}
Ordered(r) == r.startDate <= r.endDate

Answered(c) ==
    \/ \E sd \in ServerDates : ServerDateOk(c, sd)
    \/ \E f \in OtherFailures : ServerDateFail(c, f)
    \/ \E body \in ReportBodies : ReportOk(c, body)
    \/ \E f \in ReportFailures : ReportFail(c, f)

\* C13: a silent report fetch leaves the loading flag as it is when it is
\* started, when its /server-date request is answered and when its /report
\* request succeeds or fails; the flag changes only in a step that starts a
\* non-silent fetch or completes one.
C13_SilentKeepsLoading ==
    [][ /\ \A c \in Reports : (c.silent /\ loading' # loading) => ~Answered(c)
        /\ loading' # loading =>
               \/ \E c \in Started : ~c.silent
               \/ \E c \in Reports :
                      ~c.silent /\ c.stage = "report" /\ Answered(c) ]_vars

\* one tick and one manual refresh have happened; the tick's silent fetch has
\* failed while the manual one is still awaited, and the flag is still set
C13_Witness ==
    /\ Mounted
    /\ budget = 0
    /\ loading = TRUE
    /\ lastReport = "fail"
    /\ \E c \in Pending : c.kind = "balance" /\ c.origin = "timer"
    /\ \E c \in Reports : c.origin = "manual" /\ ~c.silent
    /\ \A c \in Reports : c.origin # "timer"

\* C14: whatever the answer to the request a call awaits (success, no
\* response, 500 or 401), no promise of the component is rejected: a
\* fetchReport awaiting /server-date goes on to its /report request, init()
\* goes on to its next call, and a manual refresh whose last call this was
\* goes on to increment refreshKey.
C14_NoFailurePropagates ==
    [][ /\ ~rejected'
        /\ \A c \in Gone :
               /\ (c.kind = "report" /\ c.stage = "server-date") =>
                      \E d \in BagToSet(Issued) :
                          d = [c EXCEPT !.stage = "report", !.range = d.range]
               /\ (c.kind = c.stage \/ c.stage = "report") =>
                      /\ c.origin = "init" => InitNext(c) \sqsubseteq calls'
                      /\ refreshKey' = IF GroupDone(c) THEN refreshKey + 1
                                       ELSE refreshKey ]_vars

\* a single manual refresh whose /report request failed has completed: the
\* error is shown, refreshKey was incremented and its effect has fetched
C14_Witness ==
    /\ budget = MaxEvents - 1
    /\ refreshKey = 1
    /\ lastReport = "fail"
    /\ error = "Database error"
    /\ ~loading
    /\ ~rejected
    /\ \E c \in Reports : c.origin = "effect" /\ c.silent

\* the report fetches among the calls of bag b
ReportsOf(b) == [c \in {d \in BagToSet(b) : d.kind = "report"} |-> CopiesIn(c, b)]

\* C15: while two or more report fetches are in flight, a report fetch leaves
\* the calls in flight only by being answered (none is cancelled), and
\* whenever its /report request succeeds the snapshot becomes the body of
\* that response, whichever of the fetches was started first.
C15_LastResponseWins ==
    [][ BagCardinality(ReportsOf(calls)) >= 2 =>
            \A c \in Gone : c.kind = "report" =>
                /\ Answered(c)
                /\ \A body \in ReportBodies : ReportOk(c, body) => data' = body ]_vars

\* weekly was selected, then monthly, and both fetches have succeeded: the
\* answer to the weekly one, started first, arrived last and is the snapshot
C15_Witness ==
    /\ Mounted
    /\ budget = MaxEvents - 2
    /\ timeframe = "monthly"
    /\ shownFor = "weekly"
    /\ lastReport = "ok"
    /\ data = [total_calls |-> 20, balance |-> 50]
    /\ Reports = {}

\* C16: a step that changes the timeframe takes no call out of flight and
\* leaves an interval only when the new timeframe is live; and a report
\* fetch started for a timeframe other than the current one is still
\* answered, its success setting snapshot, balance and error and its failure
\* the error.
C16_StaleResponseApplied ==
    [][ /\ timeframe' # timeframe =>
               /\ calls \sqsubseteq calls'
               /\ timeframe' # "live" => timers' = EmptyBag
        /\ \A c \in Gone :
               (c.stage = "report" /\ c.clo.tf # timeframe) =>
                   /\ Answered(c)
                   /\ \A body \in ReportBodies : ReportOk(c, body) =>
                          /\ data' = body
                          /\ balance' = (IF body.balance = NoNumber THEN balance
                                         ELSE body.balance)
                          /\ error' = Null
                   /\ \A f \in ReportFailures : ReportFail(c, f) =>
                          error' = ErrorText(f) ]_vars

\* every request has been answered, the timeframe is weekly, and the snapshot
\* is the answer to a fetch for live that arrived after the weekly fetch had
\* failed
C16_Witness ==
    /\ Mounted
    /\ budget = MaxEvents - 2
    /\ calls = EmptyBag
    /\ timeframe = "weekly"
    /\ shownFor = "live"
    /\ lastReport = "recovered"
    /\ error = Null
    /\ data \in ReportBodies

\* the interval scheduled, if any, is the one scheduled before the step and
\* its countdown has not been restarted
TimerUntouched ==
    timers' = timers /\ intervals' = intervals /\ elapsed' = elapsed

\* C17: a manual refresh, whatever the state and the timeframe, starts a
\* non-silent report fetch in the step of the click, and neither that step
\* nor the step that completes it (the increment of refreshKey) clears or
\* creates an interval.
C17_ManualRefreshKeepsTimer ==
    [][ /\ ManualRefresh =>
               /\ \E c \in Started : c.origin = "manual" /\ ~c.silent
               /\ TimerUntouched
        /\ refreshKey' # refreshKey => TimerUntouched ]_vars

\* a manual refresh made while live has completed and the interval is still
\* the one the page was loaded with
C17_Witness ==
    /\ Mounted
    /\ budget = MaxEvents - 1
    /\ timeframe = "live"
    /\ refreshKey = 1
    /\ intervals = 1
    /\ timers = One(NoClosure)

\* C18: the step in which a report fetch fails takes that fetch out of flight
\* and starts no report fetch other than the one of the refreshKey effect
\* when it completes a manual refresh; and every report fetch is started by
\* exactly one of: the page load (init), a change of the timeframe or of
\* refreshKey after a manual refresh (effect), a tick of the interval, a
\* click on Apply, a click on Refresh.
C18_NoRetry ==
    [][ /\ \A c \in Pending :
               (c.stage = "report" /\ error' # Null /\ budget' = budget) =>
               \A f \in ReportFailures :
                   \/ /\ CopiesIn(c, calls') = CopiesIn(c, calls) - 1
                      /\ \A d \in Started : d.origin = "effect" /\ GroupDone(c)
                   \/ ~ReportFail(c, f)
        /\ Started # {} =>
               /\ BagCardinality(ReportsOf(Issued)) = 1
               /\ \A d \in Started :
                      \/ d.origin = "init" /\ \E c \in Gone : c.kind = "balance"
                      \/ d.origin = "effect" /\ timeframe' # timeframe
                      \/ d.origin = "effect" /\ timeframe' = timeframe
                             /\ refreshKey' = refreshKey + 1
                      \/ d.origin = "timer" /\ \E t \in BagToSet(timers) : Tick(t)
                      \/ d.origin = "apply" /\ Apply
                      \/ d.origin = "manual" /\ ManualRefresh ]_vars

\* one tick or timeframe change after the page has loaded: its report fetch
\* has failed, the error is shown and nothing is in flight
C18_Witness ==
    /\ Mounted
    /\ budget = MaxEvents - 1
    /\ refreshKey = 0
    /\ lastReport = "fail"
    /\ error = "Failed to fetch report"
    /\ calls = EmptyBag

\* C19: whenever a request is answered with status 401, token and user are
\* absent from the storage afterwards, the location is /login and the catch
\* branch of the caller has run (fetchReport has set its error text,
\* fetchServerDate its fallback date); a failure with any other status, or
\* with no response, leaves token, user and location as they were.
C19_Interceptor ==
    [][ \A c \in Gone : \A f \in ReportFailures \cup OtherFailures :
            \/ /\ f.status = 401 =>
                       /\ ~token' /\ ~user' /\ location' = "/login"
                       /\ c.stage = "report" => error' = "Failed to fetch report"
                       /\ c.stage = "server-date" => serverDate' = ClockDate
               /\ f.status # 401 =>
                       token' = token /\ user' = user /\ location' = location
            \/ ~Intercept(f)
            \/ ~(ServerDateFail(c, f) \/ BalanceFail(c, f) \/ ChartFail(c, f)
                     \/ ReportFail(c, f)) ]_vars

\* a single tick, timeframe change or refresh after the page has loaded, and
\* a 401 answer to its /report request: the session is cleared, the page is
\* /login and the error text is set
C19_Witness ==
    /\ budget = MaxEvents - 1
    /\ lastReport = "fail"
    /\ error = "Failed to fetch report"
    /\ ~token
    /\ ~user
    /\ location = "/login"

\* the calls a click on Refresh adds: the four of Promise.all
ManualIssued ==
    {d \in BagToSet(Issued) :
        d.origin = "manual" /\ (d.kind = "report" => d \in Started)}

\* C21: refreshKey is 0 at the start and a step leaves it or adds one to it;
\* a click on Refresh leaves it and puts four requests in flight (report,
\* ASR chart, connected-calls chart, balance) under a group of their own;
\* refreshKey is incremented only by the step that answers the last request
\* of such a group still in flight, and that step starts exactly one report
\* fetch, the silent one of the refreshKey effect.
C21_RefreshKeyMonotonic ==
    /\ refreshKey = 0
    /\ [][ /\ refreshKey' \in {refreshKey, refreshKey + 1}
           /\ ManualIssued # {} =>
                  /\ refreshKey' = refreshKey
                  /\ BagCardinality(Issued) = 4
                  /\ {d.kind : d \in ManualIssued} = {"report", "asr", "cc", "balance"}
                  /\ \E g \in 1..(MaxEvents + MountEvents + 1) :
                         g \notin Groups /\ \A d \in ManualIssued : d.mr = g
                  /\ \A d \in ManualIssued : d.kind = "report" => ~d.silent
           /\ refreshKey' # refreshKey =>
                  \E c \in Gone :
                      /\ c.mr # 0
                      /\ c.kind = c.stage \/ c.stage = "report"
                      /\ \A d \in BagToSet(calls') : d.mr # c.mr
                      /\ BagCardinality(Issued) = 1
                      /\ \A d \in BagToSet(Issued) :
                             d.kind = "report" /\ d.silent /\ d.origin = "effect"
                                 /\ d.stage = "report" ]_vars

\* one click on Refresh after the page has loaded, its four requests
\* answered: refreshKey is 1 and the report fetch of the refreshKey effect is
\* in flight, a second /report request after that of the click
C21_Witness ==
    /\ Mounted
    /\ budget = MaxEvents - 1
    /\ refreshKey = 1
    /\ lastReport \in {"ok", "fail"}
    /\ Groups = {}
    /\ \E c \in Reports :
           c.origin = "effect" /\ c.silent /\ c.stage = "report"
               /\ calls = One(c)

\* C22: while the page is shown, loading is true exactly when a non-silent
\* report fetch is in flight, two overlapping non-silent fetches included.
C22_LoadingIffPending ==
    Mounted => (loading <=> \E c \in Reports : ~c.silent)

\* C23: before and after every step, error is null exactly when no /report
\* request has been answered yet or the one answered last succeeded; and a
\* step changes error only when it answers a /report request (no answer to
\* /server-date, /balance or a chart request, no timeframe change, custom
\* range edit or other click does).
C23_ErrorFollowsLastReport ==
    [][ /\ error = Null <=> lastReport \in {"none", "ok", "recovered"}
        /\ error' = Null <=> lastReport' \in {"none", "ok", "recovered"}
        /\ error' # error =>
               \E c \in Gone : c.kind = "report" /\ c.stage = "report"
        /\ lastReport' # lastReport =>
               \E c \in Gone : c.kind = "report" /\ c.stage = "report" ]_vars

\* a tick whose /report request failed and a change of the ASR timeframe,
\* every request answered: the error of the failed fetch is still shown
C23_Witness ==
    /\ Mounted
    /\ budget = 0
    /\ lastReport = "fail"
    /\ error # Null
    /\ asrTimeframe = "hour"
    /\ calls = EmptyBag

\* C24: every /report request in flight carries a non-empty start_date and a
\* non-empty end_date, and a report fetch whose closure holds no server date
\* has its /report request in flight only with the range derived from the
\* date its own /server-date request yielded (the server's date or, when that
\* request failed, the browser's).
C24_ReportHasDates ==
    \A c \in Reports :
        c.stage = "report" =>
            /\ c.range.startDate # NoDate
            /\ c.range.endDate # NoDate
            /\ c.clo.sd = NoDate =>
                   \E sd \in ServerDates \cup {ClockDate} :
                       c.range = getDateRange(sd, c.clo.tf, c.clo.cs, c.clo.ce, tz)

\* the report fetch of the first render's effect, started with no server
\* date: its own /server-date request failed and its /report request is in
\* flight with the browser's date, while the /server-date request of init()
\* is still unanswered
C24_Witness ==
    /\ Mounted
    /\ \E d \in Pending : d.kind = "server-date" /\ d.origin = "init"
    /\ \E c \in Reports :
           /\ c.origin = "effect" /\ c.stage = "report" /\ c.clo.sd = NoDate
           /\ c.range = [startDate |-> ClockDate, endDate |-> ClockDate]

\* C25: once a server date is stored, every report fetch started afterwards
\* derives its range from the stored date and sends no /server-date request,
\* and no step changes the stored date.
C25_StoredDateReused ==
    [][ serverDate # NoDate =>
            /\ \A c \in Started : c.stage = "report" /\ c.clo.sd = serverDate
            /\ \A c \in BagToSet(Issued) : c.stage # "server-date"
            /\ serverDate' = serverDate ]_vars

\* ------------------------------------------------------------------------
\* Claims on the interval's timing (specification SpecTimer)
\* ------------------------------------------------------------------------

\* C20: while the timeframe is live, never more than 60 seconds have passed
\* since live was entered or since the previous fetch of the interval
\* without the interval's fetch being started, whatever the user does in
\* between.
C20_TimerFetchWithinPeriod ==
    (Mounted /\ timeframe = "live") => sinceFetch <= PeriodSteps

\* ------------------------------------------------------------------------
\* Claims on the router and on PaymentHistory (specification SpecApp)
\* ------------------------------------------------------------------------

\* C26: a step that renders the dashboard or PaymentHistory does so with a
\* token in the storage; and the render of a document loaded with no token
\* in the storage ends at /login, whatever path it was loaded at, with no
\* protected page shown.
C26_ProtectedNeedsToken ==
    [][ /\ (shown' \in {"dashboard", "payments"} /\ shown' # shown) => token'
        /\ (shown = "none" /\ ~token) =>
               location' = "/login" /\ shown' \in {"login", "blank"} ]_vars

\* the document loaded at /payment-history with a token stored:
\* PaymentHistory is rendered and the requests of its mount are in flight
C26_Witness ==
    /\ shown = "payments"
    /\ token
    /\ location = "/payment-history"
    /\ budget = MaxEvents
    /\ payments = NoPayments
    /\ calls = PayEffect(1, "all", NoDate, NoDate)

\* C27: when Apply Filters was the last action on PaymentHistory, no
\* /payment-history request is in flight and no error is shown, page is 1
\* and the rows shown are those of offset 0 for the current filters.
C27_ApplyShowsFirstPage ==
    ( /\ OnPayments
      /\ applied
      /\ error = Null
      /\ \A c \in Pending : c.kind # "payments" ) =>
        /\ page = 1
        /\ payments.offset = 0
        /\ payments.type = type
        /\ payments.startDate = startDate
        /\ payments.endDate = endDate

\* C28: page is at least 1 in every state; every /payment-history request
\* carries the offset (page - 1) * limit of the page of the render that
\* sent it, which is not negative; and a failed /payment-history request
\* sets the error text, keeps the list and ends with loading false.
C28_PageAndOffset ==
    /\ page >= 1
    /\ [][ /\ \A c \in BagToSet(Issued) :
                c.kind = "payments" =>
                    /\ c.offset >= 0
                    /\ c.offset \in {(page - 1) * limit, (page' - 1) * limit}
           /\ \A g \in Gone, f \in OtherFailures :
                 \/ /\ error' = "Failed to fetch payments."
                    /\ payments' = payments
                    /\ loading' = FALSE
                 \/ ~PaymentsFail(g, f) ]_vars

\* Next was pressed on the first page, the request of the second page
\* failed: the error is shown over the kept rows of the first page
C28_Witness ==
    /\ OnPayments
    /\ page = 2
    /\ error = "Failed to fetch payments."
    /\ ~loading
    /\ payments.offset = 0
    /\ payments.full
    /\ \A c \in Pending : c.kind # "payments"

\* ------------------------------------------------------------------------
\* Claims on the legacy dashboard (specification SpecLegacy)
\* ------------------------------------------------------------------------

\* C29: a click or a tick after which the timeframe is custom and the custom
\* start or the custom end is empty sends no /report request (and starts no
\* report fetch at its /server-date stage) and leaves data, error, loading
\* and balance as they were, be it a timeframe button, a tick of the
\* interval, Refresh or an edit of the range.
C29_IncompleteCustomReturns ==
    [][ ( /\ budget' # budget
          /\ timeframe' = "custom"
          /\ customStart' = NoDate \/ customEnd' = NoDate ) =>
            /\ \A c \in BagToSet(Issued) : c.kind # "report"
            /\ data' = data
            /\ error' = error
            /\ loading' = loading
            /\ balance' = balance ]_vars

\* custom selected with no end date, then one tick of the interval:
\* refreshTrigger is 1 and the balance request of the tick is the only
\* request in flight
C29_Witness ==
    /\ OnLegacy
    /\ timeframe = "custom"
    /\ customEnd = NoDate
    /\ refreshTrigger = 1
    /\ budget = MaxEvents - 1
    /\ ~loading
    /\ calls = One(SimpleCall("balance", "timer", 0))

\* C30, as stated: every increment of refreshTrigger starts a silent report
\* fetch for the current timeframe.
C30_EachTickFetches ==
    [][ refreshTrigger' # refreshTrigger =>
            \E c \in BagToSet(Issued) :
                c.kind = "report" /\ c.silent /\ c.clo.tf = timeframe ]_vars

\* C30, amended: one interval exists in every state and no step cancels or
\* replaces it; a step sends the balance request of the interval exactly
\* when it increments refreshTrigger by one; and that step starts exactly
\* one silent report fetch for the current timeframe, or none when the
\* timeframe is custom and the custom start or end is empty.
C30_SingleTimer ==
    [][ /\ BagCardinality(timers) = 1
        /\ timers' = timers
        /\ intervals' = intervals
        /\ (\E c \in BagToSet(Issued) : c.origin = "timer")
               <=> refreshTrigger' = refreshTrigger + 1
        /\ refreshTrigger' \in {refreshTrigger, refreshTrigger + 1}
        /\ refreshTrigger' # refreshTrigger =>
               LET sent == {c \in BagToSet(Issued) : c.kind = "report"}
               IN  /\ CopiesIn(SimpleCall("balance", "timer", 0), Issued) = 1
                   /\ timeframe' = timeframe
                   /\ IF timeframe = "custom"
                         /\ (customStart = NoDate \/ customEnd = NoDate)
                      THEN BagCardinality(Issued) = 1
                      ELSE /\ BagCardinality(Issued) = 2
                           /\ \E c \in sent :
                                  /\ c.silent
                                  /\ c.origin = "effect"
                                  /\ c.clo.tf = timeframe ]_vars

\* Last 7 Days selected, then one tick before any response: two silent
\* report fetches for weekly are in flight, that of the timeframe change
\* and that of the tick, and the interval is the one created at mount
C30_Witness ==
    /\ OnLegacy
    /\ timeframe = "weekly"
    /\ refreshTrigger = 1
    /\ timers = One(LegacyFirstClosure)
    /\ \E c \in Reports :
           /\ CopiesIn(c, calls) = 2
           /\ c.silent
           /\ c.clo.tf = "weekly"

====
